---- MODULE Spec2Model ----
(***************************************************************************)
(* Model of the language-generation TableView component                    *)
(* (Composer/packages/client/src/pages/language-generation/table-view.tsx).*)
(*                                                                         *)
(* Strings that the component takes apart (template names, bodies, the     *)
(* text committed in a cell) are sequences of one-character strings, so    *)
(* that trim, replace(/^#/, ''), startsWith and concatenation are computed *)
(* character by character.  Identifiers that are only compared or joined   *)
(* (file ids, locales, project ids) are TLA+ strings.                      *)
(***************************************************************************)
EXTENDS Naturals, Integers, Sequences, FiniteSets, TLC

VARIABLES
  file,           \* props.file : LgFile | undefined
  lgFileId,       \* props.lgFileId
  skillId,        \* props.skillId
  dialogs,        \* ids of dialogsSelectorFamily(actualProjectId)
  locale,         \* localeState(actualProjectId)
  lgFiles,        \* lgFilesSelectorFamily(actualProjectId), an array of files
  templates,      \* useState<LgTemplate[]>([])
  effectPending,  \* the useEffect of the last commit has not run yet
  lastFile,       \* history: templates of the last present, non-empty file
  event,          \* the handler invocation being processed
  calls           \* dispatcher calls made by that invocation, in order

vars == <<file, lgFileId, skillId, dialogs, locale, lgFiles, templates,
          effectPending, lastFile, event, calls>>

-----------------------------------------------------------------------------
(* Bounds of the model *)

\* longest text committed in a cell
MaxLen == 2
\* most templates in one file
MaxTemplates == 2

-----------------------------------------------------------------------------
(* Values *)

Undefined == "undefined"

\* props.projectId, props.dialogId and settings.defaultLanguage / languages
projectId == "proj"
dialogId == "main"
defaultLanguage == "en"
languages == {"en", "fr"}

SkillIds == {Undefined, "skill"}

\* `${dialogId}.${language}`
LgId(dialog, language) == dialog \o "." \o language

LgFileIds == {Undefined, LgId(dialogId, "fr")}

WhiteSpace == {" "}
Chars == {" ", "-", "[", "#", "a"}

RECURSIVE StringsOfLen(_)
StringsOfLen(n) ==
  IF n = 0 THEN {<<>>}
  ELSE {<<c>> \o s : c \in Chars, s \in StringsOfLen(n - 1)}

\* the texts a cell can be committed with
Values == UNION {StringsOfLen(n) : n \in 0..MaxLen}

\* the literals of lines 100, 106 and 130
TemplateName == <<"T", "e", "m", "p", "l", "a", "t", "e", "N", "a", "m", "e">>
TemplateValue == <<"-", "T", "e", "m", "p", "l", "a", "t", "e", "V", "a", "l", "u", "e">>
CopySuffix == <<"_", "C", "o", "p", "y">>

\* the templates of the files passed as props.file
LgTemplate ==
  {[name |-> <<"a">>, body |-> <<"-">>],
   [name |-> <<"a">> \o CopySuffix, body |-> <<"[", "a">>],
   [name |-> TemplateName, body |-> <<"-">>]}

\* the templates of the files of the store
StoreTemplate ==
  {[name |-> <<"a">>, body |-> <<"[", "a">>],
   [name |-> <<"a">> \o CopySuffix, body |-> <<"[", "a">>],
   [name |-> TemplateName, body |-> <<"-">>]}

RECURSIVE ListsOfLen(_, _)
ListsOfLen(T, n) ==
  IF n = 0 THEN {<<>>}
  ELSE {Append(l, t) : l \in ListsOfLen(T, n - 1), t \in T}

\* template lists of a parsed file: names are unique within a file
ListsOver(T) ==
  {l \in UNION {ListsOfLen(T, n) : n \in 0..MaxTemplates} :
     \A i, j \in 1..Len(l) : l[i].name = l[j].name => i = j}

TemplateLists == ListsOver(LgTemplate)
\* template lists of the files of the store: at most one template each
StoreLists == {l \in ListsOver(StoreTemplate) : Len(l) <= 1}

Range(s) == {s[i] : i \in 1..Len(s)}

\* an LgFile object; `undefined` and `{}` are the two other values of the prop
NoFile == [kind |-> "undefined"]
EmptyObject == [kind |-> "object"]
LgFile(id, tpls) == [kind |-> "object", id |-> id, templates |-> tpls]

Truthy(f) == f.kind # "undefined"
\* lodash isEmpty on an object: it has no own enumerable key
isEmpty(f) == DOMAIN f \ {"kind"} = {}
\* f.id, undefined when the object has no such key
IdOf(f) == IF "id" \in DOMAIN f THEN f.id ELSE Undefined
HasTemplates(f) == "templates" \in DOMAIN f

-----------------------------------------------------------------------------
(* String functions of the JavaScript runtime used by the handlers *)

RECURSIVE trimStart(_)
trimStart(s) ==
  IF Len(s) > 0 /\ Head(s) \in WhiteSpace THEN trimStart(Tail(s)) ELSE s

RECURSIVE trimEnd(_)
trimEnd(s) ==
  IF Len(s) > 0 /\ s[Len(s)] \in WhiteSpace
  THEN trimEnd(SubSeq(s, 1, Len(s) - 1))
  ELSE s

\* String.prototype.trim
trim(s) == trimEnd(trimStart(s))

\* value.replace(/^#/, '')
replaceLeadingHash(s) == IF Len(s) > 0 /\ Head(s) = "#" THEN Tail(s) ELSE s

\* s.startsWith(c) for a one-character c
startsWith(s, c) == Len(s) > 0 /\ Head(s) = c

Digits == <<"0", "1", "2", "3", "4", "5", "6", "7", "8", "9">>

\* Number.prototype.toString for a natural number
RECURSIVE toString(_)
toString(n) ==
  IF n < 10 THEN <<Digits[n + 1]>>
  ELSE toString(n \div 10) \o <<Digits[(n % 10) + 1]>>

\* the `undefined` that a failed lookup of a template returns
NoTemplate == [kind |-> "undefined"]

\* Array.prototype.find by name: the first template with that name
FindByName(tpls, name) ==
  LET hits == {i \in 1..Len(tpls) : tpls[i].name = name}
  IN IF hits = {} THEN NoTemplate
     ELSE tpls[CHOOSE i \in hits : \A j \in hits : i <= j]

\* Array.prototype.find by id: the first file with that id
FindById(files, id) ==
  LET hits == {i \in 1..Len(files) : IdOf(files[i]) = id}
  IN IF hits = {} THEN NoFile
     ELSE files[CHOOSE i \in hits : \A j \in hits : i <= j]

TemplateNames(tpls) == {tpls[i].name : i \in 1..Len(tpls)}

-----------------------------------------------------------------------------
(* lgUtil.increaseNameUtilNotExist: the name itself when it is free, else  *)
(* the name with the first numeric suffix 1, 2, ... that is free.          *)

RECURSIVE increaseFrom(_, _, _)
increaseFrom(tpls, name, repeatIndex) ==
  LET newName == IF repeatIndex = 0 THEN name ELSE name \o toString(repeatIndex)
  IN IF newName \in TemplateNames(tpls)
     THEN increaseFrom(tpls, name, repeatIndex + 1)
     ELSE newName

increaseNameUtilNotExist(tpls, name) == increaseFrom(tpls, name, 0)

-----------------------------------------------------------------------------
(* Values computed on every render *)

\* faulty variant: the skill's project is ignored
actualProjectId_projectOnly == projectId

actualProjectId == IF skillId # Undefined THEN skillId ELSE projectId

\* The parse that getDefaultLangFile starts for an unparsed file only sets the
\* defaultLg atom, which no rendered value and no handler reads.
getDefaultLangFile ==
  IF lgFileId # Undefined
  THEN FindById(lgFiles, lgFileId)
  ELSE FindById(lgFiles, LgId(dialogId, defaultLanguage))

defaultLangFile == getDefaultLangFile

activeDialog == IF dialogId \in dialogs THEN dialogId ELSE Undefined

\* the key of the cross-locale field of a row
BodyKey(language) == "body-" \o language

AllColumns ==
  <<"name", "responses", "responses-lang", "responses-default-lang",
    "beenUsed", "buttons">>

NotLocalized(key) == key \notin {"responses-default-lang", "responses-lang"}
NotResponses(key) == key \notin {"responses"}
NotBeenUsed(key) == key \notin {"beenUsed"}

\* faulty variant: the usage column is dropped when a dialog is active
getTableColums_usageInverted ==
  LET byLocale == IF locale = defaultLanguage
                  THEN SelectSeq(AllColumns, NotLocalized)
                  ELSE SelectSeq(AllColumns, NotResponses)
  IN IF activeDialog # Undefined
     THEN SelectSeq(byLocale, NotBeenUsed)
     ELSE byLocale

getTableColums ==
  LET byLocale == IF locale = defaultLanguage
                  THEN SelectSeq(AllColumns, NotLocalized)
                  ELSE SelectSeq(AllColumns, NotResponses)
  IN IF activeDialog = Undefined
     THEN SelectSeq(byLocale, NotBeenUsed)
     ELSE byLocale

\* faulty variant: a row not localized in the default locale shows its own body
templatesToRender_activeFallback ==
  IF locale # defaultLanguage
  THEN LET lgFile == defaultLangFile
       IN [i \in 1..Len(templates) |->
             LET item == templates[i]
                 itemInDefaultLang ==
                   IF Truthy(lgFile) /\ HasTemplates(lgFile)
                   THEN FindByName(lgFile.templates, item.name)
                   ELSE NoTemplate
             IN item @@ (BodyKey(defaultLanguage) :>
                           IF "body" \in DOMAIN itemInDefaultLang
                           THEN itemInDefaultLang.body
                           ELSE item.body)]
  ELSE templates

templatesToRender ==
  IF locale # defaultLanguage
  THEN LET lgFile == defaultLangFile
       IN [i \in 1..Len(templates) |->
             LET item == templates[i]
                 itemInDefaultLang ==
                   IF Truthy(lgFile) /\ HasTemplates(lgFile)
                   THEN FindByName(lgFile.templates, item.name)
                   ELSE NoTemplate
             IN item @@ (BodyKey(defaultLanguage) :>
                           IF "body" \in DOMAIN itemInDefaultLang
                           THEN itemInDefaultLang.body
                           ELSE <<>>)]
  ELSE templates

-----------------------------------------------------------------------------
(* Calls on the dispatcher *)

createLgTemplate(payload) == [type |-> "createLgTemplate"] @@ payload
removeLgTemplate(payload) == [type |-> "removeLgTemplate"] @@ payload
copyLgTemplate(payload) == [type |-> "copyLgTemplate"] @@ payload
updateLgTemplate(payload) == [type |-> "updateLgTemplate"] @@ payload
setMessage(message) == [type |-> "setMessage", message |-> message]

Mutations == {"createLgTemplate", "removeLgTemplate", "copyLgTemplate",
              "updateLgTemplate"}

-----------------------------------------------------------------------------
(* The callbacks of the component; each yields the calls it makes, in order *)

\* faulty variant: the new template is always named 'TemplateName'
onCreateNewTemplate_fixedName ==
  IF Truthy(file) /\ HasTemplates(file)
  THEN <<createLgTemplate([projectId |-> actualProjectId,
                           id |-> IdOf(file),
                           template |-> [name |-> TemplateName,
                                         body |-> TemplateValue]])>>
  ELSE <<>>

\* `file.templates` is undefined for an object without that key, and
\* increaseNameUtilNotExist then throws before any call is made
onCreateNewTemplate ==
  IF Truthy(file) /\ HasTemplates(file)
  THEN LET newName == increaseNameUtilNotExist(file.templates, TemplateName)
       IN <<createLgTemplate([projectId |-> actualProjectId,
                              id |-> IdOf(file),
                              template |-> [name |-> newName,
                                            body |-> TemplateValue]])>>
  ELSE <<>>

onRemoveTemplate(name) ==
  IF Truthy(file)
  THEN <<removeLgTemplate([id |-> IdOf(file),
                           templateName |-> name,
                           projectId |-> actualProjectId])>>
  ELSE <<>>

onCopyTemplate(name) ==
  IF Truthy(file) /\ HasTemplates(file)
  THEN LET resolvedName ==
             increaseNameUtilNotExist(file.templates, name \o CopySuffix)
       IN <<copyLgTemplate([id |-> IdOf(file),
                            fromTemplateName |-> name,
                            toTemplateName |-> resolvedName,
                            projectId |-> actualProjectId])>>
  ELSE <<>>

handleTemplateUpdate(templateName, template) ==
  IF Truthy(file)
  THEN <<updateLgTemplate([id |-> IdOf(file),
                           templateName |-> templateName,
                           template |-> template,
                           projectId |-> actualProjectId])>>
  ELSE <<>>

handleTemplateUpdateDefaultLocale(templateName, template) ==
  IF Truthy(defaultLangFile)
  THEN <<updateLgTemplate([id |-> IdOf(defaultLangFile),
                           templateName |-> templateName,
                           template |-> template,
                           projectId |-> actualProjectId])>>
  ELSE <<>>

\* faulty variant: only '-' counts as a lead marker
fixedBodyOf_dashOnly(newValue) ==
  IF ~startsWith(newValue, "-") THEN <<"-", " ">> \o newValue ELSE newValue

\* `- ${newValue}` unless newValue starts with '-' or '['
fixedBodyOf(newValue) ==
  IF ~startsWith(newValue, "-") /\ ~startsWith(newValue, "[")
  THEN <<"-", " ">> \o newValue
  ELSE newValue

\* faulty variant: the '#' of the display is kept in the new name
nameOnBlur_noStrip(item, value) ==
  LET newValue == trim(value)
  IN IF newValue = item.name THEN <<>>
     ELSE IF Len(newValue) > 0
          THEN handleTemplateUpdate(item.name, [item EXCEPT !.name = newValue])
          ELSE <<>>

\* onBlur of the 'name' column
nameOnBlur(item, value) ==
  LET newValue == replaceLeadingHash(trim(value))
  IN IF newValue = item.name THEN <<>>
     ELSE IF Len(newValue) > 0
          THEN handleTemplateUpdate(item.name, [item EXCEPT !.name = newValue])
          ELSE <<>>

\* onBlur of the 'responses' column
responsesOnBlur(item, value) ==
  IF value = item.body THEN <<>>
  ELSE LET newValue == trim(value)
       IN IF Len(newValue) > 0
          THEN handleTemplateUpdate(
                 item.name, [item EXCEPT !.body = fixedBodyOf(newValue)])
          ELSE <<>>

\* onBlur of the 'responses-lang' column
responsesLangOnBlur(item, value) ==
  IF value = item.body THEN <<>>
  ELSE LET newValue == trim(value)
       IN IF Len(newValue) > 0
          THEN handleTemplateUpdate(
                 item.name, [item EXCEPT !.body = fixedBodyOf(newValue)])
          ELSE <<>>

\* onBlur of the 'responses-default-lang' column
responsesDefaultLangOnBlur(item, value) ==
  IF value = item.body THEN <<>>
  ELSE LET newValue == trim(value)
       IN IF Len(newValue) > 0
          THEN handleTemplateUpdateDefaultLocale(
                 item.name, [item EXCEPT !.body = fixedBodyOf(newValue)])
          ELSE <<>>

-----------------------------------------------------------------------------
(* Inputs of the component *)

\* values of props.file
FileInputs ==
  {NoFile, EmptyObject}
    \cup {LgFile(LgId(dialogId, "fr"), t) : t \in TemplateLists}

\* values of the lg files of the project
LgStores ==
  {<<>>}
    \cup {<<LgFile(LgId(dialogId, "fr"), d), LgFile(LgId(dialogId, "en"), d)>> :
            d \in StoreLists}

NoEvent == [handler |-> "none"]

-----------------------------------------------------------------------------
(* The state machine *)

Init ==
  /\ file \in FileInputs
  /\ lgFileId \in LgFileIds
  /\ skillId \in SkillIds
  /\ dialogs \in {{}, {dialogId}}
  /\ locale \in languages
  /\ lgFiles \in LgStores
  /\ templates = <<>>
  /\ effectPending = TRUE
  /\ lastFile = IF Truthy(file) /\ ~isEmpty(file) THEN file.templates ELSE <<>>
  /\ event = NoEvent
  /\ calls = <<>>

\* No handler is running and no effect is pending: React runs the effects of a
\* commit before it renders again and before it handles an event.
Idle == event = NoEvent /\ ~effectPending

\* the parent renders the component with another file
SetFile ==
  /\ Idle
  /\ \E f \in FileInputs :
       /\ f # file
       /\ file' = f
       /\ lastFile' = IF Truthy(f) /\ ~isEmpty(f) THEN f.templates ELSE lastFile
  /\ effectPending' = TRUE
  /\ UNCHANGED <<lgFileId, skillId, dialogs, locale, lgFiles, templates, event, calls>>

\* the store changes the locale
SetLocale ==
  /\ Idle
  /\ \E l \in languages : l # locale /\ locale' = l
  /\ UNCHANGED <<file, lgFileId, skillId, dialogs, lgFiles, templates,
                 effectPending, lastFile, event, calls>>

\* the store changes the lg files
SetLgFiles ==
  /\ Idle
  /\ \E s \in LgStores : s # lgFiles /\ lgFiles' = s
  /\ UNCHANGED <<file, lgFileId, skillId, dialogs, locale, templates,
                 effectPending, lastFile, event, calls>>

\* faulty variant: the rows are cleared when the file is absent or empty
useEffect_clearing ==
  /\ effectPending
  /\ effectPending' = FALSE
  /\ templates' = IF ~Truthy(file) \/ isEmpty(file) THEN <<>> ELSE file.templates
  /\ UNCHANGED <<file, lgFileId, skillId, dialogs, locale, lgFiles, lastFile,
                 event, calls>>

\* useEffect(..., [file, activeDialog, actualProjectId])
useEffect ==
  /\ effectPending
  /\ effectPending' = FALSE
  /\ templates' = IF ~Truthy(file) \/ isEmpty(file) THEN templates ELSE file.templates
  /\ UNCHANGED <<file, lgFileId, skillId, dialogs, locale, lgFiles, lastFile,
                 event, calls>>

Handled(e, c) ==
  /\ event' = e
  /\ calls' = c
  /\ UNCHANGED <<file, lgFileId, skillId, dialogs, locale, lgFiles, templates,
                 effectPending, lastFile>>

\* the footer button 'New template': a throw in onCreateNewTemplate ends the
\* click handler before setMessage
ClickNewTemplate ==
  /\ Idle
  /\ Handled([handler |-> "create"],
             IF Truthy(file) /\ ~HasTemplates(file)
             THEN <<>>
             ELSE onCreateNewTemplate \o <<setMessage("item added")>>)

\* the row menu entry 'Delete'
ClickDelete ==
  /\ Idle
  /\ "buttons" \in Range(getTableColums)
  /\ \E i \in 1..Len(templatesToRender) :
       LET item == templatesToRender[i]
       IN Handled([handler |-> "delete", item |-> item],
                  <<setMessage("item deleted")>> \o onRemoveTemplate(item.name))

\* the row menu entry 'Make a copy'
ClickCopy ==
  /\ Idle
  /\ "buttons" \in Range(getTableColums)
  /\ \E i \in 1..Len(templatesToRender) :
       LET item == templatesToRender[i]
       IN Handled([handler |-> "copy", item |-> item],
                  <<setMessage("item copied")>> \o onCopyTemplate(item.name))

\* a cell of the 'name' column is committed
BlurName ==
  /\ Idle
  /\ "name" \in Range(getTableColums)
  /\ \E i \in 1..Len(templatesToRender), value \in Values :
       LET item == templatesToRender[i]
       IN Handled([handler |-> "name", item |-> item, value |-> value],
                  nameOnBlur(item, value))

\* a cell of the 'responses' column is committed
BlurResponses ==
  /\ Idle
  /\ "responses" \in Range(getTableColums)
  /\ \E i \in 1..Len(templatesToRender), value \in Values :
       LET item == templatesToRender[i]
       IN Handled([handler |-> "responses", item |-> item, value |-> value],
                  responsesOnBlur(item, value))

\* a cell of the 'responses-lang' column is committed
BlurResponsesLang ==
  /\ Idle
  /\ "responses-lang" \in Range(getTableColums)
  /\ \E i \in 1..Len(templatesToRender), value \in Values :
       LET item == templatesToRender[i]
       IN Handled([handler |-> "responses-lang", item |-> item, value |-> value],
                  responsesLangOnBlur(item, value))

\* a cell of the 'responses-default-lang' column is committed
BlurResponsesDefaultLang ==
  /\ Idle
  /\ "responses-default-lang" \in Range(getTableColums)
  /\ \E i \in 1..Len(templatesToRender), value \in Values :
       LET item == templatesToRender[i]
       IN Handled([handler |-> "responses-default-lang", item |-> item,
                   value |-> value],
                  responsesDefaultLangOnBlur(item, value))

\* the handler has returned
EventDone ==
  /\ event # NoEvent
  /\ event' = NoEvent
  /\ calls' = <<>>
  /\ UNCHANGED <<file, lgFileId, skillId, dialogs, locale, lgFiles, templates,
                 effectPending, lastFile>>

Next ==
  \/ SetFile
  \/ SetLocale
  \/ SetLgFiles
  \/ useEffect
  \/ ClickNewTemplate
  \/ ClickDelete
  \/ ClickCopy
  \/ BlurName
  \/ BlurResponses
  \/ BlurResponsesLang
  \/ BlurResponsesDefaultLang
  \/ EventDone

Spec == Init /\ [][Next]_vars

-----------------------------------------------------------------------------
(* Vocabulary of the properties *)

Emitted(type) == {c \in Range(calls) : c.type = type}
EmittedMutations == {c \in Range(calls) : c.type \in Mutations}

BodyColumns == {"responses", "responses-lang", "responses-default-lang"}
ActiveBodyColumns == {"responses", "responses-lang"}

IsMarker(c) == c \in {"-", "["}

\* the body rule as the specification words it
PrefixRule(raw) ==
  LET t == trim(raw)
  IN IF Len(t) > 0 /\ IsMarker(t[1]) THEN t ELSE <<"-", " ">> \o t

\* the name rule as the specification words it
NormalName(raw) ==
  LET t == trim(raw)
  IN IF Len(t) > 0 /\ t[1] = "#" THEN SubSeq(t, 2, Len(t)) ELSE t

\* the decision table of the column planner
PlannedColumns(equalLocale, hasUsageScope) ==
  CASE equalLocale /\ hasUsageScope ->
         <<"name", "responses", "beenUsed", "buttons">>
    [] equalLocale /\ ~hasUsageScope ->
         <<"name", "responses", "buttons">>
    [] ~equalLocale /\ hasUsageScope ->
         <<"name", "responses-lang", "responses-default-lang", "beenUsed", "buttons">>
    [] ~equalLocale /\ ~hasUsageScope ->
         <<"name", "responses-lang", "responses-default-lang", "buttons">>

\* the templates of the looked-up default-locale file, none when unavailable
DefaultTemplates ==
  IF Truthy(defaultLangFile) /\ HasTemplates(defaultLangFile)
  THEN defaultLangFile.templates
  ELSE <<>>

\* the bodies of the templates of D named name
BodiesIn(D, name) == {D[j].body : j \in {k \in 1..Len(D) : D[k].name = name}}

-----------------------------------------------------------------------------
(* C1: for each of the four combinations of (active locale = default      *)
(* locale, an active dialog exists) the visible columns are exactly the    *)
(* planned list, in the base order; a cell can only be committed in, and a *)
(* row menu only opened from, a column of that list.                       *)
C1_ColumnPlan ==
  LET planned == PlannedColumns(locale = defaultLanguage, dialogId \in dialogs)
  IN /\ getTableColums = planned
     /\ event.handler \in BodyColumns \cup {"name"} =>
          event.handler \in Range(planned)

\* a cell of the default-locale column is committed while no dialog is active
C1_Witness ==
  /\ locale # defaultLanguage
  /\ dialogId \notin dialogs
  /\ event.handler = "responses-default-lang"
  /\ Len(getTableColums) = 4

(* C2: the displayed rows have the length and the name order of the local  *)
(* template list; with equal locales they are that list; otherwise each    *)
(* row carries, besides its own fields, body-<defaultLanguage>: the body   *)
(* of the template of that name in the looked-up default-locale file, or   *)
(* the empty string when there is none or the file is unavailable.         *)
C2_RowMerge ==
  LET rows == templatesToRender
  IN /\ Len(rows) = Len(templates)
     /\ \A i \in 1..Len(templates) :
          /\ rows[i].name = templates[i].name
          /\ rows[i].body = templates[i].body
          /\ IF locale = defaultLanguage
             THEN rows[i] = templates[i]
             ELSE /\ DOMAIN rows[i] = {"name", "body", BodyKey(defaultLanguage)}
                  /\ LET cross == rows[i][BodyKey(defaultLanguage)]
                         found == BodiesIn(DefaultTemplates, templates[i].name)
                     IN IF found = {} THEN cross = <<>> ELSE found = {cross}

\* two rows are shown, one localized in the default locale and one not
C2_Witness ==
  /\ locale # defaultLanguage
  /\ Len(templates) = 2
  /\ templatesToRender[1][BodyKey(defaultLanguage)] = <<>>
  /\ templatesToRender[2][BodyKey(defaultLanguage)] # <<>>
  /\ event.handler = "responses-default-lang"

(* C3 (as claimed): a commit in the primary or active-locale body column   *)
(* whose trimmed text equals the row's body, or is empty, emits no update. *)
C3_NoOpBodyEdit ==
  event.handler \in ActiveBodyColumns
    /\ (trim(event.value) = event.item.body \/ trim(event.value) = <<>>)
    => Emitted("updateLgTemplate") = {}

(* C4 (as claimed): an update from the default-locale body column carries  *)
(* the id <dialogId>.<defaultLanguage>; an update from the name, primary   *)
(* or active-locale body column carries the id of the active file.         *)
C4_DispatchTarget ==
  \A c \in Emitted("updateLgTemplate") :
    /\ event.handler = "responses-default-lang" =>
         c.id = LgId(dialogId, defaultLanguage)
    /\ event.handler \in ActiveBodyColumns \cup {"name"} => c.id = IdOf(file)

(* C5: the body of an update emitted by a body edit is the trimmed text    *)
(* when that starts with '-' or '[', else "- " followed by the trimmed     *)
(* text; it starts with '-' or '['; the rule applied to it returns it.     *)
C5_BodyPrefixRule ==
  event.handler \in BodyColumns =>
    \A c \in Emitted("updateLgTemplate") :
      /\ c.template.body = PrefixRule(event.value)
      /\ Len(c.template.body) > 0 /\ IsMarker(c.template.body[1])
      /\ PrefixRule(c.template.body) = c.template.body

\* the default-locale column emitted a body that the rule had to prefix
C5_Witness ==
  /\ event.handler = "responses-default-lang"
  /\ Emitted("updateLgTemplate") # {}
  /\ trim(event.value) # <<>> /\ ~IsMarker(trim(event.value)[1])
  /\ event.value # trim(event.value)

(* C6 (as claimed): a name edit whose normalised name is the row's name or *)
(* empty emits no update; any other emits exactly one update, from the old *)
(* name to the normalised name, with the row's body.                       *)
C6_NameEdit ==
  event.handler = "name" =>
    LET n == NormalName(event.value)
    IN IF n = event.item.name \/ n = <<>>
       THEN Emitted("updateLgTemplate") = {}
       ELSE /\ Len(calls) = 1
            /\ calls[1].type = "updateLgTemplate"
            /\ calls[1].templateName = event.item.name
            /\ calls[1].template.name = n
            /\ calls[1].template.body = event.item.body

(* C6 (amended): as claimed while the active file is present; while it is  *)
(* absent a name edit emits nothing.                                       *)
C6_NameEditGuarded ==
  event.handler = "name" =>
    LET n == NormalName(event.value)
    IN IF n = event.item.name \/ n = <<>> \/ ~Truthy(file)
       THEN calls = <<>>
       ELSE /\ Len(calls) = 1
            /\ calls[1].type = "updateLgTemplate"
            /\ calls[1].templateName = event.item.name
            /\ calls[1].template.name = n
            /\ calls[1].template = [event.item EXCEPT !.name = n]

\* a rename was emitted for a text written with the '#' of the display
C6_Witness ==
  /\ event.handler = "name"
  /\ Len(event.value) > 1 /\ event.value[1] = "#"
  /\ Len(calls) = 1
  /\ calls[1].template.name # event.item.name

(* C7: the name of a create-template call and the toTemplateName of a     *)
(* copy-template call are no name of the active file, and are the base     *)
(* ('TemplateName', '<name>_Copy') itself when the base is no name of the  *)
(* file; on a file with a template list both flows make their call.        *)
C7_FreshName ==
  /\ \A c \in Emitted("createLgTemplate") :
       /\ c.template.name \notin TemplateNames(file.templates)
       /\ TemplateName \notin TemplateNames(file.templates) =>
            c.template.name = TemplateName
  /\ \A c \in Emitted("copyLgTemplate") :
       /\ c.toTemplateName \notin TemplateNames(file.templates)
       /\ event.item.name \o CopySuffix \notin TemplateNames(file.templates) =>
            c.toTemplateName = event.item.name \o CopySuffix
  /\ Truthy(file) /\ HasTemplates(file) =>
       /\ event.handler = "create" => Cardinality(Emitted("createLgTemplate")) = 1
       /\ event.handler = "copy" => Cardinality(Emitted("copyLgTemplate")) = 1

\* a template is created in a file that has a template named 'TemplateName'
C7_Witness ==
  /\ event.handler = "create"
  /\ HasTemplates(file)
  /\ TemplateName \in TemplateNames(file.templates)
  /\ \E c \in Emitted("createLgTemplate") : c.template.name # TemplateName

(* C8 (as claimed): with differing locales, a commit in the default-locale *)
(* body column of the text that the cell displays emits no update.         *)
C8_NoOpDefaultLocaleEdit ==
  event.handler = "responses-default-lang"
    /\ event.value = event.item[BodyKey(defaultLanguage)]
    => Emitted("updateLgTemplate") = {}

C10_RowSnapshot == ~effectPending => templates = lastFile

\* the file has gone and the rows of the previous file are still shown
C10_Witness ==
  /\ ~effectPending
  /\ file \in {NoFile, EmptyObject}
  /\ Len(templates) = 2

====
